---- MODULE Spec2Model ----
(***************************************************************************)
(* A model of fluff (src/fluff/__init__.py): the calculator metaclass, the *)
(* Calculator, the IndicatorDocument (calculate and diff) and the          *)
(* FluffPillow change pipeline.                                            *)
(***************************************************************************)
EXTENDS Integers, Sequences, FiniteSets, TLC

VARIABLES
    classes,    \* CalculatorMeta: the calculator types defined so far
    lastAttrs,  \* CalculatorMeta: the attrs of the latest class statement
    calc,       \* Calculator: the latest construction (its fields, its outcome)
    values,     \* Calculator: the result of the latest calculate(item)
    calcItem,   \* Calculator: the item of that call
    store,      \* the document store, one indicator identity
    run,        \* FluffPillow: per worker, the event being processed
    lastSaved   \* the listener whose save happened last, 0 before any save

vars == <<classes, lastAttrs, calc, values, calcItem, store, run, lastSaved>>

metaVars == <<classes, lastAttrs>>
calcVars == <<calc, values, calcItem>>
pipeVars == <<store, run, lastSaved>>

\* Python's None, where the other values are records.
None == [none |-> TRUE]

----------------------------------------------------------------------------
(* Bounds and the small sets the inputs are drawn from.                    *)

MaxLen == 2       \* longest sequence an emitter yields
MaxClasses == 2   \* calculator types defined besides Calculator itself

Dates == {"d1", "d2"}                 \* the values an emitter yields
AttrNames == {"a", "b"}               \* method names of a calculator type
FilterNames == {"f", "g"}             \* names of filter_by methods
FieldNames == {"domain", "owner"}     \* fields of a source item
FieldVals == {"x", "y"}

SeqsOf(S, n) == UNION {[1..k -> S] : k \in 0..n}
Emitted == SeqsOf(Dates, MaxLen)

Range(s) == {s[i] : i \in DOMAIN s}

\* A list holding the elements of a set once each; list(set) leaves the order
\* to the hash table, and nothing below reads it.
SetToSeq(S) ==
    CHOOSE s \in [1..Cardinality(S) -> S] : Range(s) = S

----------------------------------------------------------------------------
(* CalculatorMeta.__new__                                                  *)

\* An entry of a class body: defined or not, its _fluff_emitter tag ("none"
\* when untagged) and its _fluff_filter tag.
Undefined == [defined |-> FALSE, emitter |-> "none", filter |-> FALSE]
Attrs ==
    {Undefined} \cup
    [defined : {TRUE}, emitter : {"none", "date", "delayed"}, filter : BOOLEAN]
ClassBodies == [AttrNames -> Attrs]

\* Calculator itself: no tagged methods, no CalculatorMeta parents.
CalculatorClass == [bases |-> {}, emitters |-> {}, filters |-> {}, counter |-> 0]

OwnEmitters(attrs) ==
    {n \in AttrNames : attrs[n].defined /\ attrs[n].emitter # "none"}
OwnFilters(attrs) ==
    {n \in AttrNames : attrs[n].defined /\ attrs[n].filter}

\* A plausible slip: the sets of the first parent only.
MetaNewFirstParent(reg, bases, attrs) ==
    LET first == CHOOSE p \in bases : \A q \in bases : p <= q
    IN  Append(reg, [bases |-> bases,
                     emitters |-> OwnEmitters(attrs) \cup reg[first].emitters,
                     filters |-> OwnFilters(attrs) \cup reg[first].filters,
                     counter |-> Len(reg)])

\* The registry after `class X(bases): attrs`; bases are the CalculatorMeta
\* parents (line 38 drops the others).
MetaNew(reg, bases, attrs) ==
    Append(reg, [bases |-> bases,
                 emitters |-> OwnEmitters(attrs)
                              \cup UNION {reg[p].emitters : p \in bases},
                 filters |-> OwnFilters(attrs)
                             \cup UNION {reg[p].filters : p \in bases},
                 counter |-> Len(reg)])

DefineClass(bases, attrs) ==
    /\ Len(classes) < MaxClasses + 1
    /\ classes' = MetaNew(classes, bases, attrs)
    /\ lastAttrs' = attrs
    /\ UNCHANGED <<calcVars, pipeVars>>

RECURSIVE Ancestors(_, _)
Ancestors(reg, c) ==
    reg[c].bases \cup UNION {Ancestors(reg, p) : p \in reg[c].bases}

----------------------------------------------------------------------------
(* Calculator                                                              *)

\* window: None, timedelta(0), a positive timedelta, or a number of days
\* given as an int (no timedelta).
Windows == {"None", "zero", "month", "int"}
Truthy(w) == w \in {"month", "int"}
IsTimedelta(w) == w \in {"zero", "month"}

\* The _fluff_emitter tag of each name of _fluff_emitters ("absent": not in it).
EmitterMaps == [AttrNames -> {"absent", "date", "null", "delayed"}]

\* A calculator type as an instance sees it: _fluff_emitters with their tags,
\* _fluff_filters, and the class attributes window and offsets (its keys).
CalcTypes ==
    [emitters : EmitterMaps, filters : SUBSET FilterNames,
     window : Windows, offsets : SUBSET AttrNames]

Declared(emitters) == {e \in AttrNames : emitters[e] # "absent"}

\* A source item: what each emitter yields on it, what each filter_by method
\* and the filter() method answer on it, and its fields.
Items ==
    [out : [AttrNames -> Emitted], pass : [FilterNames -> BOOLEAN],
     base : BOOLEAN, fields : [FieldNames -> FieldVals]]

\* Calculator.__init__: the instance, and how construction ended.
CalcInit(cls, window) ==
    LET w == IF window # "None" THEN window ELSE cls.window
        emitters_not_covered ==
            IF Truthy(w) THEN {} ELSE Declared(cls.emitters) \ cls.offsets
    IN  [emitters |-> cls.emitters, filters |-> cls.filters,
         offsets |-> cls.offsets, window |-> w,
         status |-> IF ~IsTimedelta(w) THEN "window_error"
                    ELSE IF emitters_not_covered # {} THEN "emitters_error"
                    ELSE "ok"]

\* A plausible slip: the filters are not consulted.
CalcCalculateUnfiltered(c, item) ==
    [e \in {n \in AttrNames : c.emitters[n] \in {"date", "null"}} |-> item.out[e]]

\* Calculator.calculate
CalcCalculate(c, item) ==
    LET passes_filter == item.base /\ \A slug \in c.filters : item.pass[slug]
    IN  [slug \in {n \in AttrNames : c.emitters[n] \in {"date", "null"}} |->
            IF passes_filter THEN item.out[slug] ELSE <<>>]

NoCalc ==
    [emitters |-> [n \in AttrNames |-> "absent"], filters |-> {},
     offsets |-> {}, window |-> "None", status |-> "none"]

\* The items of the calculator's own runs: the fields play no part there.
PlainFields == [n \in FieldNames |-> "x"]
CalcItems == {i \in Items : i.fields = PlainFields}

\* One calculator is constructed, and calculate is called on it once: neither
\* reads what an earlier call left.
Construct ==
    /\ calc.status = "none"
    /\ \E cls \in CalcTypes, window \in Windows : calc' = CalcInit(cls, window)
    /\ values' = None
    /\ calcItem' = None
    /\ UNCHANGED <<metaVars, pipeVars>>

Calculate ==
    /\ calc.status = "ok"
    /\ values = None
    /\ \E item \in CalcItems :
          /\ values' = CalcCalculate(calc, item)
          /\ calcItem' = item
    /\ UNCHANGED <<calc, metaVars, pipeVars>>

----------------------------------------------------------------------------
(* IndicatorDocument                                                       *)

\* The indicator type of the pipeline: three calculators, and its group_by.
Slugs == {"c1", "c2", "c3"}

Calculators ==
    [slug \in Slugs |->
        CASE slug = "c1" ->
               CalcInit([emitters |-> [n \in AttrNames |->
                                          IF n = "a" THEN "date" ELSE "delayed"],
                         filters |-> {"f"}, window |-> "month", offsets |-> {}],
                        "None")
          [] slug = "c2" ->
               CalcInit([emitters |-> [n \in AttrNames |->
                                          IF n = "b" THEN "null" ELSE "absent"],
                         filters |-> {}, window |-> "None", offsets |-> {}],
                        "month")
          [] OTHER ->
               CalcInit([emitters |-> [n \in AttrNames |->
                                          IF n = "a" THEN "delayed" ELSE "absent"],
                         filters |-> {}, window |-> "month", offsets |-> {"a"}],
                        "None")]

GroupByDefault == <<"domain", "owner">>

\* A group_by: field names, none twice.
GroupBys ==
    {g \in SeqsOf(FieldNames, Cardinality(FieldNames)) :
        \A i, j \in DOMAIN g : g[i] = g[j] => i = j}

\* A document fresh from the constructor (line 353): every calculator's
\* DictProperty empty, group_by the type's, no copied field.
NewDoc ==
    [state |-> [slug \in Slugs |-> <<>>],
     group_by |-> GroupByDefault,
     fields |-> [n \in FieldNames |-> "unset"]]

\* A plausible slip: an emitter that yields nothing keeps its earlier values.
DocCalculateMerge(doc, item) ==
    LET new == [slug \in Slugs |-> CalcCalculate(Calculators[slug], item)]
    IN  [state |-> [slug \in Slugs |->
                      [e \in DOMAIN new[slug] |->
                          IF new[slug][e] = <<>> /\ e \in DOMAIN doc.state[slug]
                          THEN doc.state[slug][e] ELSE new[slug][e]]],
         group_by |-> GroupByDefault,
         fields |-> [n \in FieldNames |->
                       IF n \in Range(doc.group_by) THEN item.fields[n]
                       ELSE doc.fields[n]]]

\* IndicatorDocument.calculate: the fields copied are those self.group_by
\* names when the loop of line 222 runs; line 225 replaces group_by after it.
DocCalculate(doc, item) ==
    [state |-> [slug \in Slugs |-> CalcCalculate(Calculators[slug], item)],
     group_by |-> GroupByDefault,
     fields |-> [n \in FieldNames |->
                   IF n \in Range(doc.group_by) THEN item.fields[n]
                   ELSE doc.fields[n]]]

\* A plausible slip: the sequences are compared as sets.
ShallowDictDiffAsSets(left, right) ==
    {o \in DOMAIN left \cap DOMAIN right : Range(left[o]) # Range(right[o])}

\* IndicatorDocument._shallow_dict_diff; its None is the empty set here, the
\* caller reads only its truth value and its members.
ShallowDictDiff(left, right) ==
    IF DOMAIN left = {} /\ DOMAIN right = {} THEN {}
    ELSE IF DOMAIN left = {} \/ DOMAIN right = {}
    THEN (IF DOMAIN left # {} THEN DOMAIN left ELSE DOMAIN right)
    ELSE LET left_set == DOMAIN left
             right_set == DOMAIN right
             intersect == right_set \cap left_set
             added == right_set \ intersect
             removed == left_set \ intersect
             changed == {o \in intersect : left[o] # right[o]}
         IN  added \cup removed \cup changed

\* What the docstring of diff describes: added and removed values alike.
IndicatorDiffSymmetric(self, calc_name, emitter_names, other_doc) ==
    LET names == SetToSeq(emitter_names)
    IN  [i \in DOMAIN names |->
            [calculator |-> calc_name,
             emitter |-> names[i],
             emitter_type |-> Calculators[calc_name].emitters[names[i]],
             values |->
                IF other_doc # None
                THEN SetToSeq(
                        (Range(self.state[calc_name][names[i]])
                            \ Range(other_doc.state[calc_name][names[i]]))
                        \cup (Range(other_doc.state[calc_name][names[i]])
                            \ Range(self.state[calc_name][names[i]])))
                ELSE self.state[calc_name][names[i]]]]

\* A plausible slip: the values go through a set on first creation too.
IndicatorDiffDedup(self, calc_name, emitter_names, other_doc) ==
    LET names == SetToSeq(emitter_names)
    IN  [i \in DOMAIN names |->
            [calculator |-> calc_name,
             emitter |-> names[i],
             emitter_type |-> Calculators[calc_name].emitters[names[i]],
             values |->
                IF other_doc # None
                THEN SetToSeq(Range(self.state[calc_name][names[i]])
                                \ Range(other_doc.state[calc_name][names[i]]))
                ELSE SetToSeq(Range(self.state[calc_name][names[i]]))]]

\* IndicatorDocument._indicator_diff
IndicatorDiff(self, calc_name, emitter_names, other_doc) ==
    LET names == SetToSeq(emitter_names)
    IN  [i \in DOMAIN names |->
            [calculator |-> calc_name,
             emitter |-> names[i],
             emitter_type |-> Calculators[calc_name].emitters[names[i]],
             values |->
                IF other_doc # None
                THEN SetToSeq(Range(self.state[calc_name][names[i]])
                                \ Range(other_doc.state[calc_name][names[i]]))
                ELSE self.state[calc_name][names[i]]]]

\* diff_keys of IndicatorDocument.diff (lines 249-259): per calculator, the
\* changed emitters; a calculator without any has no key.
DiffKeys(self, other_doc) ==
    [calc_name \in Slugs |->
        IF other_doc # None
        THEN ShallowDictDiff(self.state[calc_name], other_doc.state[calc_name])
        ELSE {e \in DOMAIN self.state[calc_name] :
                 self.state[calc_name][e] # <<>>}]

RECURSIVE IndicatorChanges(_, _, _, _)
IndicatorChanges(self, other_doc, diff_keys, calc_names) ==
    IF calc_names = <<>> THEN <<>>
    ELSE IndicatorDiff(self, Head(calc_names), diff_keys[Head(calc_names)],
                       other_doc)
         \o IndicatorChanges(self, other_doc, diff_keys, Tail(calc_names))

\* IndicatorDocument.diff: None, or the descriptor.
DocDiff(self, other_doc) ==
    LET diff_keys == DiffKeys(self, other_doc)
        changed == {c \in Slugs : diff_keys[c] # {}}
    IN  IF changed = {} THEN None
        ELSE [database |-> "fluff",
              doc_type |-> "IndicatorDocument",
              group_names |-> self.group_by,
              group_values |-> [i \in DOMAIN self.group_by |->
                                   self.fields[self.group_by[i]]],
              indicator_changes |->
                  IndicatorChanges(self, other_doc, diff_keys,
                                   SetToSeq(changed))]

\* Line 267 reads self[name] for every name of group_by: a field the document
\* never got raises there.
DiffRaises(self, other_doc) ==
    /\ \E c \in Slugs : DiffKeys(self, other_doc)[c] # {}
    /\ \E i \in DOMAIN self.group_by : self.fields[self.group_by[i]] = "unset"

----------------------------------------------------------------------------
(* FluffPillow                                                             *)

Workers == {1, 2}

\* A worker's event: where it stands, the decoded item, the store's document
\* when the event began (before), the snapshot taken at line 356 (old), the
\* recomputed document (ind), the diff, whether it was sent, the saves
\* attempted, and the step that raised.
IdleRun ==
    [pc |-> "idle", item |-> None, before |-> None, old |-> None, ind |-> None,
     diff |-> None, notified |-> FALSE, saves |-> 0, stage |-> "none"]

\* change_transform: decode, load, snapshot, recompute; any of the first
\* three steps may raise. The store is only read.
ChangeTransform(w, item) ==
    /\ run[w].pc = "idle"
    /\ \/ \E stage \in {"decode", "load", "calculate"} :
            run' = [run EXCEPT ![w] =
                       [IdleRun EXCEPT !.pc = "failed", !.before = store,
                                       !.stage = stage]]
       \/ run' = [run EXCEPT ![w] =
                     [IdleRun EXCEPT
                        !.pc = "transformed",
                        !.item = item,
                        !.before = store,
                        !.old = store,
                        !.ind = DocCalculate(
                                   IF store = None THEN NewDoc ELSE store,
                                   item)]]
    /\ UNCHANGED <<store, lastSaved, metaVars, calcVars>>

\* A plausible slip: the diff is sent before the document is saved.
ChangeTransportSendFirst(w) ==
    /\ run[w].pc = "transformed"
    /\ LET diff == DocDiff(run[w].ind, run[w].old)
       IN  \/ /\ store' = run[w].ind
              /\ lastSaved' = w
              /\ run' = [run EXCEPT ![w].pc = "done", ![w].saves = @ + 1,
                                    ![w].diff = diff,
                                    ![w].notified = (diff # None)]
           \/ /\ run' = [run EXCEPT ![w].pc = "failed", ![w].saves = @ + 1,
                                    ![w].stage = "save",
                                    ![w].diff = diff,
                                    ![w].notified = (diff # None)]
              /\ UNCHANGED <<store, lastSaved>>
    /\ UNCHANGED <<metaVars, calcVars>>

\* change_transport: save, then diff against the snapshot, then send when
\* the diff is not None. The save may raise; nothing follows it then.
ChangeTransport(w) ==
    /\ run[w].pc = "transformed"
    /\ \/ /\ store' = run[w].ind
          /\ lastSaved' = w
          /\ run' = [run EXCEPT ![w] =
                [@ EXCEPT
                   !.saves = @ + 1,
                   !.pc = IF DiffRaises(run[w].ind, run[w].old)
                          THEN "failed" ELSE "done",
                   !.stage = IF DiffRaises(run[w].ind, run[w].old)
                             THEN "diff" ELSE "none",
                   !.diff = IF DiffRaises(run[w].ind, run[w].old)
                            THEN None
                            ELSE DocDiff(run[w].ind, run[w].old),
                   !.notified = /\ ~DiffRaises(run[w].ind, run[w].old)
                                /\ DocDiff(run[w].ind, run[w].old) # None]]
       \/ /\ run' = [run EXCEPT ![w].pc = "failed", ![w].saves = @ + 1,
                                ![w].stage = "save"]
          /\ UNCHANGED <<store, lastSaved>>
    /\ UNCHANGED <<metaVars, calcVars>>

\* The listener turns to the next change of the feed, and the event it leaves
\* is no longer on record.
NextChange(w) ==
    /\ run[w].pc \in {"done", "failed"}
    /\ run' = [run EXCEPT ![w] = IdleRun]
    /\ lastSaved' = IF lastSaved = w THEN 0 ELSE lastSaved
    /\ UNCHANGED <<store, metaVars, calcVars>>

\* The items of the pipeline's calculators: none overrides filter(), none
\* has a filter named g, and the fields stay the same.
PipeItems ==
    {i \in Items : i.base /\ i.pass["g"] /\ i.fields = PlainFields}

----------------------------------------------------------------------------
(* Specifications                                                          *)

\* After construction: Calculator alone is defined, no calculator is built,
\* the store holds no document and both listeners wait.
Init ==
    /\ classes = <<CalculatorClass>>
    /\ lastAttrs = [n \in AttrNames |-> Undefined]
    /\ calc = NoCalc
    /\ values = None
    /\ calcItem = None
    /\ store = None
    /\ run = [w \in Workers |-> IdleRun]
    /\ lastSaved = 0

NextMeta ==
    \E bases \in (SUBSET (1..Len(classes))) \ {{}}, attrs \in ClassBodies :
        DefineClass(bases, attrs)

SpecMeta == Init /\ [][NextMeta]_vars

NextCalc == Construct \/ Calculate

SpecCalc == Init /\ [][NextCalc]_vars

\* Events of one identity, one after another.
Next ==
    \/ \E item \in PipeItems : ChangeTransform(1, item)
    \/ ChangeTransport(1)
    \/ NextChange(1)

Spec == Init /\ [][Next]_vars

\* Two listeners on the same identity, their loads and saves interleaved;
\* a few items are enough to tell the runs apart.
RaceItems ==
    {i \in PipeItems :
        i.out["a"] = <<"d1">> /\ i.out["b"] \in {<<>>, <<"d2">>}}

NextRace ==
    \E w \in Workers :
        \/ \E item \in RaceItems : ChangeTransform(w, item)
        \/ ChangeTransport(w)
        \/ NextChange(w)

SpecRace == Init /\ [][NextRace]_vars

\* Events of an identity whose document was stored while the type had another
\* group_by: it holds that group_by and the fields copied under it.
GroupItems ==
    {i \in Items :
        /\ i.base /\ i.pass = [n \in FilterNames |-> TRUE]
        /\ i.out = [n \in AttrNames |-> <<"d1">>]}

StaleStates == {DocCalculate(NewDoc, i).state : i \in GroupItems}
StoredFields == [FieldNames -> FieldVals \cup {"unset"}]

StaleDocs ==
    {d \in [state : StaleStates, group_by : GroupBys, fields : StoredFields] :
        \A n \in FieldNames : d.fields[n] # "unset" <=> n \in Range(d.group_by)}

InitGroup ==
    /\ classes = <<CalculatorClass>>
    /\ lastAttrs = [n \in AttrNames |-> Undefined]
    /\ calc = NoCalc
    /\ values = None
    /\ calcItem = None
    /\ store \in StaleDocs
    /\ run = [w \in Workers |-> IdleRun]
    /\ lastSaved = 0

NextGroup ==
    \/ \E item \in GroupItems : ChangeTransform(1, item)
    \/ ChangeTransport(1)
    \/ NextChange(1)

SpecGroup == InitGroup /\ [][NextGroup]_vars

----------------------------------------------------------------------------
(* The claims                                                              *)

SymDiff(A, B) == (A \ B) \cup (B \ A)

\* The changes of a finished run's diff.
Changes(w) == run[w].diff.indicator_changes
Current(w, i) == run[w].ind.state[Changes(w)[i].calculator][Changes(w)[i].emitter]
Previous(w, i) == run[w].old.state[Changes(w)[i].calculator][Changes(w)[i].emitter]

\* C1: diffed against an existing previous version, every changed emitter's
\* values are, as a set, the symmetric difference of the current and the
\* previous sequence.
C1_ValuesAreSymmetricDifference ==
    \A w \in Workers :
        (run[w].pc = "done" /\ run[w].old # None /\ run[w].diff # None) =>
            \A i \in DOMAIN Changes(w) :
                Range(Changes(w)[i].values)
                    = SymDiff(Range(Current(w, i)), Range(Previous(w, i)))

\* Every declared emitter is in offsets, or a window is given.
Covered(c) ==
    \A e \in Declared(c.emitters) : e \in c.offsets \/ c.window # "None"

\* C2: with no window or a timedelta window, construction succeeds if and
\* only if every declared emitter is covered, by the window or by offsets.
C2_ConstructsIffCovered ==
    (calc.status # "none" /\ calc.window \in {"None", "month"}) =>
        (calc.status = "ok" <=> Covered(calc))

\* The (calculator, emitter) pairs of a document with a non-empty sequence.
NonEmptyPairs(doc) ==
    {p \in Slugs \X AttrNames :
        p[2] \in DOMAIN doc.state[p[1]] /\ doc.state[p[1]][p[2]] # <<>>}

\* C3: a finished event notified the subscribers if and only if the
\* recomputed state differs from the state persisted before the event, or,
\* with no prior document, some emitter sequence is non-empty.
C3_NotifiedIffStateChanged ==
    \A w \in Workers :
        run[w].pc = "done" =>
            (run[w].notified <=>
                IF run[w].before = None
                THEN NonEmptyPairs(run[w].ind) # {}
                ELSE run[w].ind.state # run[w].before.state)

\* The same unchanged item fed a second time: nothing is sent.
C3_Witness ==
    /\ run[1].pc = "done"
    /\ run[1].before # None
    /\ run[1].ind.state = run[1].before.state
    /\ NonEmptyPairs(run[1].ind) # {}
    /\ ~run[1].notified

\* C4: only the save changes the store, it writes the recomputed document,
\* it is attempted once per event and before the diff is computed and sent;
\* an event that failed at decode, load, recompute or save left the stored
\* document as it was and sent nothing.
C4_SaveIsTheOnlyMutation ==
    /\ [](\A w \in Workers :
            /\ run[w].saves <= 1
            /\ run[w].pc = "done" => run[w].saves = 1
            /\ (run[w].diff # None \/ run[w].notified) =>
                    (run[w].saves = 1 /\ run[w].stage = "none")
            /\ run[w].stage \in {"decode", "load", "calculate", "save"} =>
                    (store = run[w].before /\ ~run[w].notified))
    /\ [][store' # store =>
            \E w \in Workers :
                /\ run[w].pc = "transformed"
                /\ run'[w].saves = run[w].saves + 1
                /\ store' = run[w].ind]_vars

\* A save that failed where the event would have changed the document.
C4_Witness ==
    /\ run[1].stage = "save"
    /\ run[1].before # None
    /\ run[1].ind.state # run[1].before.state
    /\ store = run[1].before

\* C5: on first creation the diff is nothing when every sequence is empty;
\* otherwise its changes hold one entry for each (calculator, emitter) with a
\* non-empty sequence, its values the full current sequence, and no other.
C5_FirstCreationReportsFullSequences ==
    \A w \in Workers :
        (run[w].pc = "done" /\ run[w].old = None) =>
            IF NonEmptyPairs(run[w].ind) = {}
            THEN run[w].diff = None
            ELSE /\ run[w].diff # None
                 /\ Len(Changes(w)) = Cardinality(NonEmptyPairs(run[w].ind))
                 /\ \A p \in NonEmptyPairs(run[w].ind) :
                        \E i \in DOMAIN Changes(w) :
                            /\ Changes(w)[i].calculator = p[1]
                            /\ Changes(w)[i].emitter = p[2]
                            /\ Changes(w)[i].values
                                   = run[w].ind.state[p[1]][p[2]]

\* A first diff with one emitter empty and the other holding a value twice.
C5_Witness ==
    /\ run[1].pc = "done"
    /\ run[1].old = None
    /\ run[1].ind.state["c1"]["a"] = <<"d1", "d1">>
    /\ run[1].ind.state["c2"]["b"] = <<>>
    /\ run[1].diff # None
    /\ Len(Changes(1)) = 1

PassesFilter(c, item) == item.base /\ \A f \in c.filters : item.pass[f]

\* C6: calculate yields exactly the date and null emitters as keys, never a
\* delayed one; each holds the emitter's full output when the item passes
\* filter() and every filter_by method, and the empty sequence otherwise.
C6_CalculateFiltersThenEmits ==
    (calc.status = "ok" /\ values # None) =>
        /\ DOMAIN values = {e \in AttrNames : calc.emitters[e] \in {"date", "null"}}
        /\ \A e \in DOMAIN values :
              values[e] = IF PassesFilter(calc, calcItem)
                          THEN calcItem.out[e] ELSE <<>>

\* An item failing one of two filters, an emitter that would yield values on
\* it, and a delayed emitter beside it.
C6_Witness ==
    /\ calc.status = "ok"
    /\ values # None
    /\ calc.filters = FilterNames
    /\ calcItem.base /\ calcItem.pass["f"] /\ ~calcItem.pass["g"]
    /\ calc.emitters["a"] = "date" /\ calc.emitters["b"] = "delayed"
    /\ calcItem.out["a"] # <<>>
    /\ DOMAIN values = {"a"}

\* C7: a type's emitters and filters include those of each of its ancestors,
\* and defining a type leaves the sets of the types before it as they were.
C7_SubtypeSetsAreSupersets ==
    /\ [](\A c \in DOMAIN classes :
            \A p \in Ancestors(classes, c) :
                /\ classes[p].emitters \subseteq classes[c].emitters
                /\ classes[p].filters \subseteq classes[c].filters)
    /\ [][\A c \in DOMAIN classes : classes'[c] = classes[c]]_vars

\* A type with two parents that redefines, untagged, an emitter and a filter
\* it inherits.
C7_Witness ==
    /\ Len(classes) = 3
    /\ classes[3].bases = {1, 2}
    /\ \E n \in AttrNames :
          /\ n \in classes[2].emitters
          /\ lastAttrs[n].defined /\ lastAttrs[n].emitter = "none"
          /\ n \in classes[3].emitters
    /\ \E n \in AttrNames :
          /\ n \in classes[2].filters
          /\ lastAttrs[n].defined /\ ~lastAttrs[n].filter
          /\ n \in classes[3].filters

C9_StoredStateIsLastSavedRun ==
    lastSaved # 0 =>
        /\ store # None
        /\ \A slug \in Slugs :
              store.state[slug]
                  = CalcCalculate(Calculators[slug], run[lastSaved].item)

\* Two runs that both loaded the empty store, so before either saved, and
\* both saved: different items, the second save over a non-empty state.
C9_Witness ==
    /\ run[1].pc = "done" /\ run[2].pc = "done"
    /\ run[1].old = None /\ run[2].old = None
    /\ run[1].ind.state # run[2].ind.state
    /\ NonEmptyPairs(run[1].ind) # {}
    /\ lastSaved = 2
    /\ CalcCalculate(Calculators["c2"], run[2].item)["b"] = <<>>

====
